---- MODULE Spec2Model ----
(***************************************************************************)
(* Matrix<T> of src/src/lib.rs: a row-major Vec<Vec<T>> with two dimension *)
(* fields, and its operations new, from, transpose, slice, add, mul and    *)
(* index.  The element type T is instantiated with a signed integer of     *)
(* Width bits whose += and * wrap around (a build without overflow         *)
(* checks).  Vectors are TLA+ sequences, so the 0-based index i of the     *)
(* code is position i + 1 here.                                            *)
(*                                                                         *)
(* A panic (a failed assert!, an out-of-bounds vector access) ends the     *)
(* program: every operation returns a status, and no action is enabled     *)
(* once the status is not "ok".                                            *)
(***************************************************************************)
EXTENDS Integers, Sequences, FiniteSets, TLC

\* Bounds of the model.
Width == 2
MaxDim == 2

----------------------------------------------------------------------------
\* The element type T.

RECURSIVE Pow2(_)
Pow2(n) == IF n = 0 THEN 1 ELSE 2 * Pow2(n - 1)

TMin == 0 - Pow2(Width - 1)

Wrap(x) == ((x - TMin) % Pow2(Width)) + TMin

\* T::default()
Default == 0

\* x += y
AddAssign(x, y) == Wrap(x + y)

\* x * y
TMul(x, y) == Wrap(x * y)

----------------------------------------------------------------------------
\* Vec indexing: v[i] panics unless i < v.len().

InVec(v, i) == i < Len(v)

\* Whether self.m[i][j] is an access within both vectors.
InStore(self, i, j) == InVec(self.m, i) /\ InVec(self.m[i + 1], j)

Ok(res, n) == [st |-> "ok", res |-> res, n |-> n]
Oob(res, n) == [st |-> "oob", res |-> res, n |-> n]
AssertFailed(res) == [st |-> "assert", res |-> res, n |-> 0]

----------------------------------------------------------------------------
\* Matrix::new

\* A variant of new that builds cols rows of rows elements.
NewSwapped(rows, cols) ==
    [m |-> [i \in 1..cols |-> [j \in 1..rows |-> Default]],
     rows |-> rows,
     cols |-> cols]

New(rows, cols) ==
    [m |-> [i \in 1..rows |-> [j \in 1..cols |-> Default]],
     rows |-> rows,
     cols |-> cols]

\* From<Vec<Vec<T>>>::from: the row lengths of other are not looked at.
From(other) ==
    IF Len(other) = 0
    THEN New(0, 0)
    ELSE [New(Len(other), Len(other[1])) EXCEPT !.m = other]

----------------------------------------------------------------------------
\* Matrix::transpose

\* The inner loop: row i of tmp, from self.m[j][i] for j in 0..self.rows.
RECURSIVE TransposeRow(_, _, _, _)
TransposeRow(self, i, j, row) ==
    IF j = self.rows THEN [st |-> "ok", row |-> row]
    ELSE IF ~InStore(self, j, i) THEN [st |-> "oob", row |-> row]
    ELSE TransposeRow(self, i, j + 1, Append(row, self.m[j + 1][i + 1]))

\* The outer loop, for i in 0..self.cols; n counts the rows pushed.
RECURSIVE TransposeLoop(_, _, _)
TransposeLoop(self, i, tmp) ==
    IF i = self.cols THEN Ok(tmp, i)
    ELSE LET row == TransposeRow(self, i, 0, <<>>)
         IN  IF row.st # "ok" THEN Oob(tmp, i)
             ELSE TransposeLoop(self, i + 1, Append(tmp, row.row))

\* A variant of transpose that replaces the buffer and leaves the two
\* dimension fields as they were.
TransposeNoSwap(self) ==
    LET tmp == TransposeLoop(self, 0, <<>>)
    IN  IF tmp.st # "ok" THEN Oob(self, tmp.n)
        ELSE Ok([m |-> tmp.res, rows |-> self.rows, cols |-> self.cols], tmp.n)

\* self.m = tmp, then the two dimension fields are swapped.  A panic leaves
\* self as it was.
Transpose(self) ==
    LET tmp == TransposeLoop(self, 0, <<>>)
    IN  IF tmp.st # "ok" THEN Oob(self, tmp.n)
        ELSE Ok([m |-> tmp.res, rows |-> self.cols, cols |-> self.rows], tmp.n)

----------------------------------------------------------------------------
\* Matrix::slice

\* for i in range { tmp.push(self.m[i].clone()) }; p is the position in range.
\* n counts the rows copied.
RECURSIVE SliceLoop(_, _, _, _)
SliceLoop(self, range, p, tmp) ==
    IF p > Len(range) THEN [st |-> "ok", tmp |-> tmp]
    ELSE IF ~InVec(self.m, range[p]) THEN [st |-> "oob", tmp |-> tmp]
    ELSE SliceLoop(self, range, p + 1, Append(tmp, self.m[range[p] + 1]))

\* A variant of slice that returns the selected rows in ascending order of
\* their indices, as a range of rows would be.
SliceAscending(self, range) ==
    LET tmp == SliceLoop(self, range, 1, <<>>)
        asc == IF Len(range) = 2 /\ range[1] > range[2]
               THEN <<range[2], range[1]>>
               ELSE range
        sorted == SliceLoop(self, asc, 1, <<>>)
    IN  IF tmp.st # "ok" THEN Oob(New(0, 0), Len(tmp.tmp))
        ELSE Ok(From(sorted.tmp), Len(sorted.tmp))

Slice(self, range) ==
    LET tmp == SliceLoop(self, range, 1, <<>>)
    IN  IF tmp.st # "ok" THEN Oob(New(0, 0), Len(tmp.tmp))
        ELSE Ok(From(tmp.tmp), Len(tmp.tmp))

----------------------------------------------------------------------------
\* Add<&Matrix<T>> for &Matrix<T>

\* matrix.m[i][j] += other.m[i][j].clone(), for i in 0..rows, j in 0..cols;
\* n counts the elements computed.
RECURSIVE AddRefLoop(_, _, _, _, _, _, _)
AddRefLoop(matrix, other, rows, cols, i, j, n) ==
    IF i = rows THEN Ok(matrix, n)
    ELSE IF j = cols THEN AddRefLoop(matrix, other, rows, cols, i + 1, 0, n)
    ELSE IF ~(InStore(matrix, i, j) /\ InStore(other, i, j)) THEN Oob(matrix, n)
    ELSE AddRefLoop(
            [matrix EXCEPT !.m[i + 1][j + 1] = AddAssign(@, other.m[i + 1][j + 1])],
            other, rows, cols, i, j + 1, n + 1)

AddRef(self, other) ==
    IF self.rows # other.rows THEN AssertFailed(self)
    ELSE IF self.cols # other.cols THEN AssertFailed(self)
    ELSE AddRefLoop(self, other, self.rows, self.cols, 0, 0, 0)

----------------------------------------------------------------------------
\* Add for Matrix<T>

\* self.m[i][j] += other.m[i][j].clone(), on self's own storage.
RECURSIVE AddValLoop(_, _, _, _, _)
AddValLoop(self, other, i, j, n) ==
    IF i = self.rows THEN Ok(self, n)
    ELSE IF j = self.cols THEN AddValLoop(self, other, i + 1, 0, n)
    ELSE IF ~(InStore(self, i, j) /\ InStore(other, i, j)) THEN Oob(self, n)
    ELSE AddValLoop(
            [self EXCEPT !.m[i + 1][j + 1] = AddAssign(@, other.m[i + 1][j + 1])],
            other, i, j + 1, n + 1)

\* A variant of the by-value sum that accumulates self's own elements.
AddValWrongOperand(self, other) ==
    IF self.rows # other.rows THEN AssertFailed(self)
    ELSE IF self.cols # other.cols THEN AssertFailed(self)
    ELSE AddValLoop(self, self, 0, 0, 0)

AddVal(self, other) ==
    IF self.rows # other.rows THEN AssertFailed(self)
    ELSE IF self.cols # other.cols THEN AssertFailed(self)
    ELSE AddValLoop(self, other, 0, 0, 0)

----------------------------------------------------------------------------
\* Mul<&Matrix<T>> for &Matrix<T>

\* entry += self.m[i][k].clone() * rhs.m[k][j].clone(), for k in 0..self.cols
RECURSIVE MulEntry(_, _, _, _, _, _)
MulEntry(self, rhs, i, j, k, entry) ==
    IF k = self.cols THEN [st |-> "ok", entry |-> entry]
    ELSE IF ~(InStore(self, i, k) /\ InStore(rhs, k, j))
         THEN [st |-> "oob", entry |-> entry]
    ELSE MulEntry(self, rhs, i, j, k + 1,
                  AddAssign(entry, TMul(self.m[i + 1][k + 1], rhs.m[k + 1][j + 1])))

\* matrix.m[i][j] = entry, for i in 0..self.rows, j in 0..rhs.cols; n counts
\* the entries stored.
RECURSIVE MulLoop(_, _, _, _, _, _)
MulLoop(matrix, self, rhs, i, j, n) ==
    IF i = self.rows THEN Ok(matrix, n)
    ELSE IF j = rhs.cols THEN MulLoop(matrix, self, rhs, i + 1, 0, n)
    ELSE LET entry == MulEntry(self, rhs, i, j, 0, Default)
         IN  IF entry.st # "ok" THEN Oob(matrix, n)
             ELSE MulLoop([matrix EXCEPT !.m[i + 1][j + 1] = entry.entry],
                          self, rhs, i, j + 1, n + 1)

\* A variant of the product without the assertion on the dimensions.
MulRefNoAssert(self, rhs) ==
    MulLoop(New(self.rows, rhs.cols), self, rhs, 0, 0, 0)

MulRef(self, rhs) ==
    IF self.cols # rhs.rows THEN AssertFailed(New(0, 0))
    ELSE MulLoop(New(self.rows, rhs.cols), self, rhs, 0, 0, 0)

\* Mul for Matrix<T>: (&self) * (&rhs)
MulVal(self, rhs) == MulRef(self, rhs)

----------------------------------------------------------------------------
\* Index<(usize,usize)>::index

Index(self, ix) ==
    IF InStore(self, ix[1], ix[2])
    THEN [st |-> "ok", elem |-> self.m[ix[1] + 1][ix[2] + 1]]
    ELSE [st |-> "oob", elem |-> Default]

----------------------------------------------------------------------------
\* The program: a matrix variable m, the matrix r that the last call returned
\* (the empty matrix when it returned none), and a record of the last call (its operands as they
\* were before the call, its arguments, how it ended, the element index
\* returned and the number of elements it had computed when it ended).

VARIABLES m, r, last

vars == <<m, r, last>>

\* Inputs of from that keep the caller's obligation (all rows of one length).
RectLiterals ==
    { <<>>,
      << <<>> >>,
      << <<>>, <<>> >>,
      << <<1>> >>,
      << <<-1, 1>> >>,
      << <<1>>, <<-2>> >>,
      << <<1, -1>>, <<0, 1>> >>,
      << <<-2, 1>>, <<1, 1>> >> }

\* Inputs of from with rows of different lengths.
RaggedLiterals ==
    { << <<1>>, <<-1, 1>> >>,
      << <<1, -1>>, <<1>> >>,
      << <<>>, <<1>> >>,
      << <<1>>, <<>> >> }

Literals == RectLiterals \cup RaggedLiterals

Dims == 0..MaxDim

\* The right-hand (or left-hand) operands of + and *: freshly built matrices.
Operands(L) == {From(other) : other \in L} \cup {New(rows, cols) : rows, cols \in Dims}

\* The index sequences given to slice: empty, in order, out of order, with a
\* repetition, and with an index that names no row of a two-row matrix.
Ranges ==
    { <<>>, <<0>>, <<1>>, <<2>>,
      <<0, 1>>, <<1, 0>>, <<0, 0>>, <<1, 1>>, <<1, 2>>, <<2, 0>> }

NoMatrix == New(0, 0)

Call(op, lhs, rhs, range, ix, st, elem, n) ==
    [op |-> op, lhs |-> lhs, rhs |-> rhs, range |-> range, ix |-> ix,
     st |-> st, elem |-> elem, n |-> n]

\* No call has panicked, and the last call's result has been dealt with: the
\* program is about to make its next call.
Running == last.op \in {"init", "assign", "drop"}

\* The calls that return a matrix.
MatrixCalls == {"new", "from", "slice", "add_ref", "add_val", "mul_ref", "mul_val"}

Init ==
    /\ m = New(0, 0)
    /\ r = New(0, 0)
    /\ last = Call("init", NoMatrix, NoMatrix, <<>>, <<0, 0>>, "ok", Default, 0)

\* r = Matrix::new(rows, cols)
DoNew(rows, cols) ==
    /\ Running
    /\ r' = New(rows, cols)
    /\ last' = Call("new", NoMatrix, NoMatrix, <<>>, <<rows, cols>>, "ok", Default, 0)
    /\ UNCHANGED m

\* r = Matrix::from(other)
DoFrom(other) ==
    /\ Running
    /\ r' = From(other)
    /\ last' = Call("from", NoMatrix, NoMatrix, <<>>, <<0, 0>>, "ok", Default, 0)
    /\ UNCHANGED m

\* m = r: the returned matrix is moved into the variable.
Assign ==
    /\ last.st = "ok"
    /\ last.op \in MatrixCalls
    /\ m' = r
    /\ r' = NoMatrix
    /\ last' = Call("assign", NoMatrix, NoMatrix, <<>>, <<0, 0>>, "ok", Default, 0)

\* The result of the last call goes out of scope.
Drop ==
    /\ last.st = "ok"
    /\ last.op \notin {"init", "assign", "drop"}
    /\ r' = NoMatrix
    /\ last' = Call("drop", NoMatrix, NoMatrix, <<>>, <<0, 0>>, "ok", Default, 0)
    /\ UNCHANGED m

\* m.transpose()
DoTranspose ==
    /\ Running
    /\ LET out == Transpose(m)
       IN  /\ m' = out.res
           /\ last' = Call("transpose", m, NoMatrix, <<>>, <<0, 0>>, out.st, Default, out.n)
    /\ r' = NoMatrix

\* r = m.slice(range)
DoSlice(range) ==
    /\ Running
    /\ LET out == Slice(m, range)
       IN  /\ r' = IF out.st = "ok" THEN out.res ELSE NoMatrix
           /\ last' = Call("slice", m, NoMatrix, range, <<0, 0>>, out.st, Default, out.n)
    /\ UNCHANGED m

\* The operands of a binary operator: m and x, in either order.
Lhs(x, swap) == IF swap THEN x ELSE m
Rhs(x, swap) == IF swap THEN m ELSE x

Binary(op, out, x, swap) ==
    /\ r' = IF out.st = "ok" THEN out.res ELSE NoMatrix
    /\ last' = Call(op, Lhs(x, swap), Rhs(x, swap), <<>>, <<0, 0>>, out.st, Default, out.n)
    /\ UNCHANGED m

\* r = &lhs + &rhs
DoAddRef(x, swap) ==
    /\ Running
    /\ Binary("add_ref", AddRef(Lhs(x, swap), Rhs(x, swap)), x, swap)

\* r = lhs.clone() + rhs.clone()
DoAddVal(x, swap) ==
    /\ Running
    /\ Binary("add_val", AddVal(Lhs(x, swap), Rhs(x, swap)), x, swap)

\* r = &lhs * &rhs
DoMulRef(x, swap) ==
    /\ Running
    /\ Binary("mul_ref", MulRef(Lhs(x, swap), Rhs(x, swap)), x, swap)

\* r = lhs.clone() * rhs.clone()
DoMulVal(x, swap) ==
    /\ Running
    /\ Binary("mul_val", MulVal(Lhs(x, swap), Rhs(x, swap)), x, swap)

\* m[ix]
DoIndex(ix) ==
    /\ Running
    /\ LET out == Index(m, ix)
       IN  last' = Call("index", m, NoMatrix, <<>>, ix, out.st, out.elem, 0)
    /\ r' = NoMatrix
    /\ UNCHANGED m

\* One call of the program, from given only the inputs in L.
Step(L) ==
    \/ \E rows, cols \in Dims : DoNew(rows, cols)
    \/ \E other \in L : DoFrom(other)
    \/ Assign
    \/ Drop
    \/ DoTranspose
    \/ \E range \in Ranges : DoSlice(range)
    \/ \E x \in Operands(L), swap \in BOOLEAN : DoAddRef(x, swap)
    \/ \E x \in Operands(L), swap \in BOOLEAN : DoAddVal(x, swap)
    \/ \E x \in Operands(L), swap \in BOOLEAN : DoMulRef(x, swap)
    \/ \E x \in Operands(L), swap \in BOOLEAN : DoMulVal(x, swap)
    \/ \E ix \in Dims \X Dims : DoIndex(ix)

Next == Step(Literals)

Spec == Init /\ [][Next]_vars

\* The programs that give from rectangular input only.
NextRect == Step(RectLiterals)

SpecRect == Init /\ [][NextRect]_vars

----------------------------------------------------------------------------
\* Properties.

\* The data-model invariant of a matrix value.
WellFormed(M) ==
    /\ Len(M.m) = M.rows
    /\ \A i \in 1..Len(M.m) : Len(M.m[i]) = M.cols

Adds == {"add_ref", "add_val"}
Muls == {"mul_ref", "mul_val"}

SameShape(A, B) == A.rows = B.rows /\ A.cols = B.cols

\* T::default() plus A[i][1]*B[1][j], ..., A[i][k]*B[k][j], added in that
\* order (positions from 1).
RECURSIVE DotProduct(_, _, _, _, _)
DotProduct(A, B, i, j, k) ==
    IF k = 0 THEN Default
    ELSE AddAssign(DotProduct(A, B, i, j, k - 1), TMul(A.m[i][k], B.m[k][j]))

\* C1: every matrix the program holds stores exactly rows rows of exactly
\* cols elements each.
C1_EveryMatrixWellFormed == WellFormed(m) /\ WellFormed(r)

\* C2: a product of A and B with A.cols = B.rows returns a matrix of A.rows
\* rows and B.cols columns whose entry (i, j) is the default value plus the
\* products A[i][k] * B[k][j] accumulated in increasing k.
C2_ProductIsDotProducts ==
    (last.op \in Muls /\ last.lhs.cols = last.rhs.rows) =>
        /\ last.st = "ok"
        /\ r.rows = last.lhs.rows
        /\ r.cols = last.rhs.cols
        /\ WellFormed(r)
        /\ \A i \in 1..r.rows, j \in 1..r.cols :
              r.m[i][j] = DotProduct(last.lhs, last.rhs, i, j, last.lhs.cols)

\* C3: the by-value sum ends as the by-reference sum of the same operands
\* ends; when it returns, it returns the same matrix, which has A's shape and
\* the entries A[i][j] + B[i][j].
C3_AddByValueAsByReference ==
    last.op = "add_val" =>
        LET A == last.lhs
            B == last.rhs
            byRef == AddRef(A, B)
        IN  /\ last.st = byRef.st
            /\ SameShape(A, B) => last.st # "assert"
            /\ last.st = "ok" =>
                  /\ r = byRef.res
                  /\ SameShape(r, A)
                  /\ Len(r.m) = Len(A.m)
                  /\ \A i \in 1..A.rows :
                        /\ Len(r.m[i]) = Len(A.m[i])
                        /\ \A j \in 1..A.cols :
                              r.m[i][j] = AddAssign(A.m[i][j], B.m[i][j])

C3_Witness ==
    /\ last.op = "add_val"
    /\ last.st = "ok"
    /\ last.lhs.rows = 2
    /\ last.lhs.cols = 2
    /\ r # last.lhs
    /\ r # last.rhs

\* C4: a second transpose after a transpose gives back the matrix as it was
\* before the first.
C4_TransposeTwice ==
    last.op = "transpose" =>
        /\ last.st = "ok"
        /\ Transpose(m).st = "ok"
        /\ Transpose(m).res = last.lhs

\* C5: a transpose that returns has swapped the two dimension fields, stores
\* cols rows of rows elements (of the matrix before), and its entry (i, j) is
\* the entry (j, i) of the matrix before.
C5_TransposeShapeAndEntries ==
    (last.op = "transpose" /\ last.st = "ok") =>
        LET M == last.lhs
        IN  /\ m.rows = M.cols
            /\ m.cols = M.rows
            /\ Len(m.m) = M.cols
            /\ \A i \in 1..M.cols :
                  /\ Len(m.m[i]) = M.rows
                  /\ \A j \in 1..M.rows : m.m[i][j] = M.m[j][i]

C5_Witness ==
    /\ last.op = "transpose"
    /\ last.st = "ok"
    /\ last.lhs.rows = 1
    /\ last.lhs.cols = 2
    /\ last.lhs.m[1][1] # last.lhs.m[1][2]

\* C6: a sum of matrices of different shapes, and a product whose left column
\* count is not the right row count, end in the failed assertion with no
\* element computed and no matrix returned.
C6_MismatchAborts ==
    (\/ last.op \in Adds /\ ~SameShape(last.lhs, last.rhs)
     \/ last.op \in Muls /\ last.lhs.cols # last.rhs.rows) =>
        /\ last.st = "assert"
        /\ last.n = 0
        /\ r = NoMatrix

C6_Witness ==
    /\ last.op = "mul_val"
    /\ last.lhs.cols # last.rhs.rows
    /\ last.lhs.rows = 2
    /\ last.rhs.cols = 2
    /\ last.st = "assert"

\* C7: index panics when the row is not below rows or the column not below
\* cols, and otherwise returns the stored element and leaves the matrix as it
\* was.
C7_IndexWithinDimensions ==
    last.op = "index" =>
        IF last.ix[1] < last.lhs.rows /\ last.ix[2] < last.lhs.cols
        THEN /\ last.st = "ok"
             /\ last.elem = last.lhs.m[last.ix[1] + 1][last.ix[2] + 1]
             /\ m = last.lhs
        ELSE last.st = "oob"

\* C8: slice with valid row indices returns one row per index, row k being
\* the matrix's row range[k], and leaves the matrix as it was; with an invalid
\* index it panics.
C8_SliceRows ==
    last.op = "slice" =>
        LET M == last.lhs
            range == last.range
        IN  IF \A p \in 1..Len(range) : range[p] < M.rows
            THEN /\ last.st = "ok"
                 /\ r.rows = Len(range)
                 /\ Len(r.m) = Len(range)
                 /\ \A p \in 1..Len(range) : r.m[p] = M.m[range[p] + 1]
                 /\ m = M
            ELSE /\ last.st = "oob"
                 /\ m = M

C8_Witness ==
    /\ last.op = "slice"
    /\ last.st = "ok"
    /\ last.range = <<1, 0>>
    /\ last.lhs.m[1] # last.lhs.m[2]

\* For A * B just computed and every C built from the inputs in L with
\* B.cols = C.rows: (A*B)*C and A*(B*C) both return, and return equal matrices.
AssociativeWith(L) ==
    (last.op \in Muls /\ last.lhs.cols = last.rhs.rows) =>
        /\ last.st = "ok"
        /\ \A C \in Operands(L) :
              last.rhs.cols = C.rows =>
                  LET left == MulVal(r, C)
                      bc == MulVal(last.rhs, C)
                  IN  /\ left.st = "ok"
                      /\ bc.st = "ok"
                      /\ MulVal(last.lhs, bc.res).st = "ok"
                      /\ MulVal(last.lhs, bc.res).res = left.res

\* C9: multiplication is associative: for all A, B, C with A.cols = B.rows
\* and B.cols = C.rows, (A*B)*C and A*(B*C) both return and are equal.
C9_ProductAssociative == AssociativeWith(Literals)

\* The same with C built from rectangular input only; it holds of the
\* programs of SpecRect.
RectProductAssociative == AssociativeWith(RectLiterals)

\* C10: when from is given rectangular input only, every matrix the program
\* holds stores rows rows of cols elements; transpose, sums and products make
\* no out-of-bounds access, nor does slice with valid indices; and slice with
\* no index returns the 0x0 matrix.
C10_RectangularInputKeepsInvariant ==
    /\ WellFormed(m)
    /\ WellFormed(r)
    /\ last.op \in {"new", "from", "transpose"} \cup Adds \cup Muls => last.st # "oob"
    /\ (last.op \in Adds /\ SameShape(last.lhs, last.rhs)) => last.st = "ok"
    /\ (last.op \in Muls /\ last.lhs.cols = last.rhs.rows) => last.st = "ok"
    /\ (last.op = "slice" /\ \A p \in 1..Len(last.range) : last.range[p] < last.lhs.rows)
          => last.st = "ok"
    /\ (last.op = "slice" /\ last.range = <<>>) => r = New(0, 0)

C10_Witness ==
    /\ last.op = "mul_ref"
    /\ last.st = "ok"
    /\ last.lhs.rows = 2
    /\ last.lhs.cols = 1
    /\ r.cols = 2
    /\ r # New(2, 2)
    /\ m = last.lhs
    /\ m # New(2, 1)

====
